---- MODULE Spec2Model ----
(***************************************************************************)
(* Next Asia Link: the Input Collector (the Page component) and the Relay  *)
(* Endpoint (POST /api/submit).                                            *)
(*                                                                         *)
(* A text is a sequence of atoms.  An atom is a chunk of characters that   *)
(* the code never looks inside: a word ("a" for a.com), one separator      *)
(* character, or a scheme prefix ("https://", "HTTP://").                  *)
(*                                                                         *)
(* Spec      : the Page component; its fetch is answered by the relay      *)
(*             handler (POST) run on the body the page sent.               *)
(* RelaySpec : the relay handler alone, on arbitrary request bodies.       *)
(***************************************************************************)
EXTENDS Integers, Sequences, FiniteSets, TLC

VARIABLES
    rows,        \* useState<Row[]>: sequence of [id, url]
    submitting,  \* useState(false)
    result,      \* useState<ResultState>(null)
    pending,     \* bodies of the fetch("/api/submit") calls not yet settled
    defaultPrevented, \* whether the handler of the last event called preventDefault()
    webhook,     \* process.env.N8N_WEBHOOK_URL ("" when unset)
    relayPc,     \* position of the POST handler: "idle", "awaiting", "done"
    relayReq,    \* the request the POST handler is serving
    outbound,    \* payloads of the fetch(webhook) calls made for relayReq
    down,        \* how the fetch(webhook) call ended
    relayResp,   \* the NextResponse the handler returned for relayReq
    fnIn,        \* the argument a pure function is applied to
    fnOut        \* the values it returned, one per application

vars == <<rows, submitting, result, pending, defaultPrevented, webhook, relayPc, relayReq, outbound, down, relayResp, fnIn, fnOut>>
pageVars == <<rows, submitting, result, pending, defaultPrevented>>
relayVars == <<webhook, relayPc, relayReq, outbound, down, relayResp>>
fnVars == <<fnIn, fnOut>>

(***************************************************************************)
(* Bounds of the model.                                                    *)
(***************************************************************************)
MaxRows == 3
MaxPending == 2
MaxTextLen == 3
MaxEntries == 5

(***************************************************************************)
(* Texts                                                                   *)
(***************************************************************************)
Whitespace == {" ", "\t", "\n", "\r"}
SchemeAtoms == {"https://", "http://", "HTTPS://", "HTTP://", "HtTp://"}

RECURSIVE TrimStart(_)
TrimStart(s) ==
    IF s /= <<>> /\ Head(s) \in Whitespace THEN TrimStart(Tail(s)) ELSE s

RECURSIVE TrimEnd(_)
TrimEnd(s) ==
    IF s /= <<>> /\ s[Len(s)] \in Whitespace
    THEN TrimEnd(SubSeq(s, 1, Len(s) - 1))
    ELSE s

trim(s) == TrimEnd(TrimStart(s))

\* /^https?:\/\//i.test(v)
\* /^http:\/\//i in place of /^https?:\/\//i
HasSchemeHttpOnly(v) == v /= <<>> /\ Head(v) \in {"http://", "HTTP://", "HtTp://"}

HasScheme(v) == v /= <<>> /\ Head(v) \in SchemeAtoms

normalizeUrl(input) ==
    LET v == trim(input)
    IN  IF v = <<>> THEN <<>>
        ELSE IF ~HasScheme(v) THEN <<"https://">> \o v
        ELSE v

\* new URL(u) succeeds.  Without a scheme there is no base to resolve against.
\* With one, the parser drops tabs and newlines, and the host (the atoms up to
\* the first atom that holds a "/" or ":") must be non-empty and hold no space.
RECURSIVE HostOk(_, _)
HostOk(s, seen) ==
    IF s = <<>> THEN seen
    ELSE IF Head(s) \in {"\t", "\n", "\r"} THEN HostOk(Tail(s), seen)
    ELSE IF Head(s) = " " THEN FALSE
    ELSE IF Head(s) \in SchemeAtoms THEN TRUE
    ELSE HostOk(Tail(s), TRUE)

isValidUrl(u) ==
    LET v == trim(u)
    IN  HasScheme(v) /\ HostOk(Tail(v), FALSE)

(***************************************************************************)
(* Separators of a paste: /\r?\n|,|\t| +/                                  *)
(***************************************************************************)
Separators == {"\n", ",", "\t", " "}

\* /\r?\n|,|\t| +/.test(t)
HasSeparator(t) == \E i \in DOMAIN t : t[i] \in Separators

\* text.split(/\r?\n|,|\t| +/g): the pieces between separators, empty ones kept.
RECURSIVE SplitFrom(_, _)
SplitFrom(t, cur) ==
    IF t = <<>> THEN <<cur>>
    ELSE IF Head(t) \in Separators THEN <<cur>> \o SplitFrom(Tail(t), <<>>)
    ELSE IF Head(t) = "\r" /\ Len(t) > 1 /\ t[2] = "\n"
         THEN <<cur>> \o SplitFrom(Tail(Tail(t)), <<>>)
    ELSE SplitFrom(Tail(t), Append(cur, Head(t)))

split(t) == SplitFrom(t, <<>>)

\* .map((s) => s.trim())
MapTrim(ps) == [i \in DOMAIN ps |-> trim(ps[i])]

\* .filter(Boolean): the empty string is falsy.
FilterNonEmpty(ps) == SelectSeq(ps, LAMBDA s : s /= <<>>)

\* const parts of pasteMany
parts(text) == FilterNonEmpty(MapTrim(split(text)))

(***************************************************************************)
(* Rows and the values derived from them                                   *)
(***************************************************************************)
\* The strings uid() can return: Math.random() is not a counter, so nothing
\* keeps two calls from returning the same string.
UidValues == {"u1", "u2"}

Row(id, url) == [id |-> id, url |-> url]

\* rows.map((r) => normalizeUrl(r.url)).filter(Boolean)
urlsOf(rs) == FilterNonEmpty([i \in DOMAIN rs |-> normalizeUrl(rs[i].url)])

\* Array.from(new Set(urls)): a Set iterates in insertion order.
RECURSIVE Dedup(_, _)
Dedup(s, acc) ==
    IF s = <<>> THEN acc
    ELSE IF \E i \in DOMAIN acc : acc[i] = Head(s)
         THEN Dedup(Tail(s), acc)
         ELSE Dedup(Tail(s), Append(acc, Head(s)))

\* keeps the last occurrence of each URL in place of the first
uniqueOfLastOccurrence(us) ==
    LET Reversed(s) == [i \in 1..Len(s) |-> s[Len(s) + 1 - i]]
    IN  Reversed(Dedup(Reversed(us), <<>>))

uniqueOf(us) == Dedup(us, <<>>)

urls == urlsOf(rows)
uniqueUrls == uniqueOf(urls)

\* addRow: [...p, { id: uid(), url: "" }]
addRow(p, id) == Append(p, Row(id, <<>>))

\* removeRow: p.length === 1 ? p : p.filter((r) => r.id !== id)
removeRow(p, id) ==
    IF Len(p) = 1 THEN p ELSE SelectSeq(p, LAMBDA r : r.id /= id)

\* setUrl: p.map((r) => (r.id === id ? { ...r, url } : r))
setUrl(p, id, url) ==
    [i \in DOMAIN p |-> IF p[i].id = id THEN Row(p[i].id, url) ELSE p[i]]

\* pasteMany's updater, for more than one part: the first part goes into the
\* last row, each other part into a new row whose id is ids[k].
pasteManyRows(prev, ps, ids) ==
    LET n == Len(prev)
        first == Head(ps)
        rest == Tail(ps)
        next == [i \in DOMAIN prev |-> IF i = n THEN Row(prev[i].id, first) ELSE prev[i]]
    IN  next \o [k \in DOMAIN rest |-> Row(ids[k], rest[k])]

(***************************************************************************)
(* Messages.  A message is kept as its template and what is put into it.   *)
(***************************************************************************)
Message(class, idx, u) == [class |-> class, idx |-> idx, u |-> u]

\* "No URL provided. Add at least 1 target."
NoUrlMessage == Message("No URL", 0, <<>>)
\* `#${idx + 1} Invalid URL format: ${u}`
InvalidUrlMessage(idx, u) == Message("Invalid URL", idx, u)
\* "Duplicates detected. Payload will be de-duplicated automatically."
DuplicatesMessage == Message("Duplicates", 0, <<>>)
\* a string that comes from an exception
TextMessage(s) == Message("text", 0, <<s>>)

\* validate(), on the urls / uniqueUrls of the given rows
validateRows(rs) ==
    LET us == urlsOf(rs)
        uq == uniqueOf(us)
        invalid == [i \in DOMAIN uq |->
                       IF ~isValidUrl(uq[i]) THEN <<InvalidUrlMessage(i, uq[i])>> ELSE <<>>]
        Flatten[k \in 0..Len(uq)] ==
            IF k = 0 THEN <<>> ELSE Flatten[k - 1] \o invalid[k]
    IN  (IF Len(uq) = 0 THEN <<NoUrlMessage>> ELSE <<>>)
        \o Flatten[Len(uq)]
        \o (IF Len(us) /= Len(uq) THEN <<DuplicatesMessage>> ELSE <<>>)

validate == validateRows(rows)

\* errors.filter((e) => e.includes("Invalid URL") || e.includes("No URL"))
fatalOfNoUrlOnly(errors) == SelectSeq(errors, LAMBDA e : e.class \in {"No URL"})

fatalOf(errors) == SelectSeq(errors, LAMBDA e : e.class \in {"Invalid URL", "No URL"})

(***************************************************************************)
(* The Relay Endpoint: POST /api/submit                                    *)
(***************************************************************************)
\* A value of a JSON body field: <<kind, text>>; NoBody is an absent field.
NoBody == <<"absent", "">>
NoStatus == 0

\* The texts JSON.parse accepts, among those the model's webhook answers with.
DecodableTexts == {"{\"x\":1}"}

\* safeJsonParse: the decoded value, or the text itself when it does not decode
safeJsonParse(text) ==
    IF text \in DecodableTexts THEN <<"json", text>> ELSE <<"text", text>>

\* res.ok of a fetch Response
StatusOk(status) == status >= 200 /\ status <= 299

\* What NextResponse.json(obj, { status }) sends: the HTTP status and the
\* fields of obj (details <<>>, status NoStatus, body NoBody when absent).
\* The relay's message strings are written here in English.
Response(http, message, details, status, body) ==
    [http |-> http, message |-> message, details |-> details,
     status |-> status, body |-> body]

NoResponse == Response(0, "", <<>>, NoStatus, NoBody)

\* A request body: whether req.json() decodes it, and what it decodes to.
\* kind is the typeof class of the decoded value, urlsKind that of its urls
\* field, urls the elements when the field is an array; an element is
\* [t |-> its type, s |-> what String(v) makes of it].
Body(decodes, kind, urlsKind, us) ==
    [decodes |-> decodes, kind |-> kind, urlsKind |-> urlsKind, urls |-> us]

\* How a fetch(webhook) call ended: "response" with (status, text), "thrown"
\* with the exception's text, or "none" while it has not
Outcome(kind, status, text) == [kind |-> kind, status |-> status, text |-> text]

NoOutcome == Outcome("none", NoStatus, "")

NoRequest == Body(FALSE, "none", "absent", <<>>)

Str(text) == [t |-> "string", s |-> text]

\* JSON.stringify({ app, urls: uniqueUrls, created_at }) as the relay decodes it
SubmissionBody(us) ==
    Body(TRUE, "object", "array", [i \in DOMAIN us |-> Str(us[i])])

\* asObject(body)["urls"]: only a non-null object (an array is one) has fields
urlsField(body) ==
    IF body.kind \in {"object"} THEN [kind |-> body.urlsKind, elems |-> body.urls]
    ELSE [kind |-> "absent", elems |-> <<>>]

\* asStringArray(value) ?? []
asStringArray(field) ==
    IF field.kind /= "array" THEN <<>>
    ELSE [i \in DOMAIN field.elems |-> field.elems[i].s]

\* The handler up to its fetch: the response it returns early, or NoResponse
\* when it goes on to call the webhook.
EarlyResponseJsonFirst(hook, body) ==
    IF ~body.decodes THEN Response(400, "JSON broken", <<>>, NoStatus, NoBody)
    ELSE IF hook = "" THEN Response(500, "N8N_WEBHOOK_URL unset", <<>>, NoStatus, NoBody)
    ELSE IF Len(asStringArray(urlsField(body))) = 0
         THEN Response(400, "urls empty", <<>>, NoStatus, NoBody)
    ELSE NoResponse

EarlyResponseNoUrlsCheck(hook, body) ==
    IF hook = "" THEN Response(500, "N8N_WEBHOOK_URL unset", <<>>, NoStatus, NoBody)
    ELSE IF ~body.decodes THEN Response(400, "JSON broken", <<>>, NoStatus, NoBody)
    ELSE NoResponse

EarlyResponse(hook, body) ==
    IF hook = "" THEN Response(500, "N8N_WEBHOOK_URL unset", <<>>, NoStatus, NoBody)
    ELSE IF ~body.decodes THEN Response(400, "JSON broken", <<>>, NoStatus, NoBody)
    ELSE IF Len(asStringArray(urlsField(body))) = 0
         THEN Response(400, "urls empty", <<>>, NoStatus, NoBody)
    ELSE NoResponse

\* payload.urls of the fetch(webhook) call
OutboundUrls(body) == asStringArray(urlsField(body))

\* The handler after the webhook answered with (status, text)
ForwardResponseAlways200(status, text) ==
    Response(200, "forwarded", <<>>, status, safeJsonParse(text))

ForwardResponse(status, text) ==
    IF ~StatusOk(status)
    THEN Response(502, "n8n returned an error", <<>>, status, safeJsonParse(text))
    ELSE Response(200, "forwarded", <<>>, status, safeJsonParse(text))

\* The handler's catch: fetch(webhook) or res.text() threw msg
ExceptionResponse(msg) ==
    Response(502, "Webhook forward exception", <<TextMessage(msg)>>, NoStatus, NoBody)

(***************************************************************************)
(* The page's reading of the relay's answer                                *)
(***************************************************************************)
\* What res.json().catch(() => ({})) yields: the fields of the decoded object.
Raw(hasMessage, message, details, status, body) ==
    [hasMessage |-> hasMessage, message |-> message, details |-> details,
     status |-> status, body |-> body]

\* {} : res.json() rejected
EmptyRaw == Raw(FALSE, "", <<>>, NoStatus, NoBody)

\* the JSON the relay sent, decoded
RawOf(resp) == Raw(TRUE, resp.message, resp.details, resp.status, resp.body)

\* ApiOk / ApiNg; NoData is undefined
Data(message, details, status, body) ==
    [present |-> TRUE, message |-> message, details |-> details,
     status |-> status, body |-> body]

NoData == [present |-> FALSE, message |-> "", details |-> <<>>,
           status |-> NoStatus, body |-> NoBody]

\* parseApi: { ng } when details is a non-empty array, else { ok }
parseApi(raw) ==
    LET message == IF raw.hasMessage THEN raw.message ELSE "response"
    IN  IF Len(raw.details) > 0
        THEN [ng |-> Data(message, raw.details, raw.status, raw.body), ok |-> NoData]
        ELSE [ng |-> NoData, ok |-> Data(message, <<>>, raw.status, raw.body)]

\* ResultState
Result(kind, message, details, data) ==
    [kind |-> kind, message |-> message, details |-> details, data |-> data]

NullResult == Result("null", "", <<>>, NoData)

\* setResult({ ok: false, message: "Input rejected.", details: errors })
RejectedResult(errors) == Result("ng", "Input rejected.", errors, NoData)

\* setResult({ ok: false, message: "Network error.", details: [msg] })
NetworkErrorResult(msg) == Result("ng", "Network error.", <<TextMessage(msg)>>, NoData)

\* What onSubmit sets once res (its ok flag) and raw are there
ResponseResult(resOk, raw) ==
    LET parsed == parseApi(raw)
    IN  IF ~resOk
        THEN Result("ng",
                    IF parsed.ng.present THEN parsed.ng.message ELSE "Send failed.",
                    IF parsed.ng.present THEN parsed.ng.details ELSE <<>>,
                    parsed.ng)
        ELSE Result("ok", "Payload sent.", <<>>,
                    IF parsed.ok.present THEN parsed.ok
                    ELSE Data("forwarded", <<>>, NoStatus, NoBody))

(***************************************************************************)
(* What the model's environment supplies                                   *)
(***************************************************************************)
\* values typed into a field (onChange)
TypedTexts == { <<"a">>, <<"a", " ", "b">>, <<" ", "a">> }

\* clipboard texts
PasteTexts == { <<"b">>, <<"b", " ">>, <<",">>, <<"b", ",", "a">>,
                <<"a", ",", " ", "b", "\n", "a">> }

\* N8N_WEBHOOK_URL: unset, or set
Webhooks == {"", "https://n8n/webhook"}

\* what the webhook answers with, and what a failed fetch throws
DownStatuses == {200, 204, 503}
DownTexts == {"{\"x\":1}", "ok"}
ThrowTexts == {"fetch failed", "terminated"}

\* bodies POSTed to the relay by any HTTP client
U1 == <<"https://", "a">>
U2 == <<"https://", "b">>
RequestBodies ==
    { Body(FALSE, "none", "absent", <<>>),
      Body(TRUE, "null", "absent", <<>>),
      Body(TRUE, "number", "absent", <<>>),
      Body(TRUE, "array", "absent", <<>>),
      Body(TRUE, "object", "absent", <<>>),
      Body(TRUE, "object", "string", <<>>),
      Body(TRUE, "object", "array", <<>>),
      Body(TRUE, "object", "array", <<Str(U1)>>),
      Body(TRUE, "object", "array", <<Str(U1), Str(U2)>>),
      Body(TRUE, "object", "array", <<Str(U1), Str(U1)>>),
      Body(TRUE, "object", "array", <<Str(U2)>>),
      Body(TRUE, "object", "array", <<Str(U2), Str(U1)>>),
      Body(TRUE, "object", "array", <<Str(<<"a">>)>>),
      Body(TRUE, "object", "array", <<Str(<<>>)>>),
      Body(TRUE, "object", "array", <<Str(<<"a", " ", "b">>), Str(U1)>>),
      Body(TRUE, "object", "array", <<[t |-> "number", s |-> <<"1">>]>>),
      Body(TRUE, "object", "array", <<[t |-> "null", s |-> <<"null">>], Str(U2)>>) }

\* statuses of answers to the page that do not come from the relay's handler
\* (a platform error page), whose body res.json() cannot decode
PlatformStatuses == {200, 504}

(***************************************************************************)
(* The Page component                                                      *)
(***************************************************************************)
PageInit ==
    /\ \E id \in UidValues : rows = <<Row(id, <<>>)>>
    /\ submitting = FALSE
    /\ result = NullResult
    /\ pending = <<>>
    /\ defaultPrevented = FALSE

RelayIdle ==
    /\ relayPc = "idle"
    /\ relayReq = NoRequest
    /\ outbound = <<>>
    /\ down = NoOutcome
    /\ relayResp = NoResponse

\* no pure function is being applied
NoArgument == [kind |-> "none", text |-> <<>>, rows |-> <<>>]

FnIdle ==
    /\ fnIn = NoArgument
    /\ fnOut = <<>>

Init ==
    /\ PageInit
    /\ webhook \in Webhooks
    /\ RelayIdle
    /\ FnIdle

\* onClick={addRow}
AddRow ==
    /\ Len(rows) < MaxRows
    /\ \E id \in UidValues : rows' = addRow(rows, id)
    /\ defaultPrevented' = FALSE
    /\ UNCHANGED <<submitting, result, pending>>
    /\ UNCHANGED <<relayVars, fnVars>>

\* onClick={() => removeRow(row.id)}
RemoveRow ==
    /\ \E i \in DOMAIN rows : rows' = removeRow(rows, rows[i].id)
    /\ defaultPrevented' = FALSE
    /\ UNCHANGED <<submitting, result, pending>>
    /\ UNCHANGED <<relayVars, fnVars>>

\* onChange={(e) => setUrl(row.id, e.target.value)}
SetUrl ==
    /\ \E i \in DOMAIN rows, t \in TypedTexts : rows' = setUrl(rows, rows[i].id, t)
    /\ defaultPrevented' = FALSE
    /\ UNCHANGED <<submitting, result, pending>>
    /\ UNCHANGED <<relayVars, fnVars>>

\* The rows after text t is pasted over the whole field of row i, new rows
\* taking their ids from ids.  With a separator in t the handler prevents the
\* default and calls pasteMany, which returns early on fewer than two parts;
\* without one the browser puts t into the field and onChange calls setUrl.
pasteInto(p, i, t, ids) ==
    IF HasSeparator(t)
    THEN IF Len(parts(t)) <= 1 THEN p ELSE pasteManyRows(p, parts(t), ids)
    ELSE setUrl(p, p[i].id, t)

\* onPaste on the field of row i, with clipboard text t
PasteAt(i, t) ==
    /\ Len(rows) + Len(parts(t)) - 1 <= MaxRows
    /\ defaultPrevented' = HasSeparator(t)
    /\ \E ids \in [1..(Len(parts(t)) - 1) -> UidValues] :
          rows' = pasteInto(rows, i, t, ids)
    /\ UNCHANGED <<submitting, result, pending>>
    /\ UNCHANGED <<relayVars, fnVars>>

Paste == \E i \in DOMAIN rows, t \in PasteTexts : PasteAt(i, t)

\* urls: uniqueUrls in the body onSubmit posts
submittedUrlsNotDeduplicated == urls

submittedUrls == uniqueUrls

\* disabled={submitting} on the SEND button
SubmitAlwaysEnabled == TRUE

SubmitEnabled == ~submitting

\* onSubmit, up to its await
OnSubmit ==
    /\ SubmitEnabled
    /\ Len(pending) < MaxPending
    /\ defaultPrevented' = FALSE
    /\ UNCHANGED rows
    /\ UNCHANGED <<relayVars, fnVars>>
    /\ LET errors == validate
       IN  IF Len(fatalOf(errors)) > 0
           THEN /\ result' = RejectedResult(errors)
                /\ UNCHANGED <<submitting, pending>>
           ELSE /\ result' = NullResult
                /\ submitting' = TRUE
                /\ pending' = Append(pending, SubmissionBody(submittedUrls))

Without(s, k) == SubSeq(s, 1, k - 1) \o SubSeq(s, k + 1, Len(s))

\* The responses POST can return for a body
RelayAnswers(hook, body) ==
    IF EarlyResponse(hook, body) /= NoResponse
    THEN {EarlyResponse(hook, body)}
    ELSE {ForwardResponse(st, tx) : st \in DownStatuses, tx \in DownTexts}
         \cup {ExceptionResponse(m) : m \in ThrowTexts}

\* onSubmit from the relay's answer resp to pending[k] on: res.json(),
\* parseApi, setResult, finally
FetchResolvesWith(k, resp) ==
    /\ result' = ResponseResult(StatusOk(resp.http), RawOf(resp))
    /\ pending' = Without(pending, k)
    /\ submitting' = FALSE
    /\ defaultPrevented' = FALSE
    /\ UNCHANGED rows
    /\ UNCHANGED <<relayVars, fnVars>>

FetchResolves ==
    \E k \in DOMAIN pending :
       \E resp \in RelayAnswers(webhook, pending[k]) : FetchResolvesWith(k, resp)

\* the same, on an answer whose body is not JSON: raw is {}
FetchResolvesUndecodable ==
    /\ \E k \in DOMAIN pending, st \in PlatformStatuses :
          /\ result' = ResponseResult(StatusOk(st), EmptyRaw)
          /\ pending' = Without(pending, k)
    /\ submitting' = FALSE
    /\ defaultPrevented' = FALSE
    /\ UNCHANGED rows
    /\ UNCHANGED <<relayVars, fnVars>>

\* onSubmit's catch without its finally: submitting stays set
FetchRejectsWithoutFinally ==
    /\ \E k \in DOMAIN pending, msg \in ThrowTexts :
          /\ result' = NetworkErrorResult(msg)
          /\ pending' = Without(pending, k)
    /\ defaultPrevented' = FALSE
    /\ UNCHANGED <<rows, submitting>>
    /\ UNCHANGED <<relayVars, fnVars>>

\* onSubmit's catch and finally: fetch rejected
FetchRejects ==
    /\ \E k \in DOMAIN pending, msg \in ThrowTexts :
          /\ result' = NetworkErrorResult(msg)
          /\ pending' = Without(pending, k)
    /\ submitting' = FALSE
    /\ defaultPrevented' = FALSE
    /\ UNCHANGED rows
    /\ UNCHANGED <<relayVars, fnVars>>

\* clearAll without its setResult(null)
ClearAllKeepingResult ==
    /\ \E id \in UidValues : rows' = <<Row(id, <<>>)>>
    /\ defaultPrevented' = FALSE
    /\ UNCHANGED <<submitting, result, pending>>
    /\ UNCHANGED <<relayVars, fnVars>>

\* onClick={clearAll}
ClearAll ==
    /\ \E id \in UidValues : rows' = <<Row(id, <<>>)>>
    /\ result' = NullResult
    /\ defaultPrevented' = FALSE
    /\ UNCHANGED <<submitting, pending>>
    /\ UNCHANGED <<relayVars, fnVars>>

Next ==
    \/ AddRow
    \/ RemoveRow
    \/ SetUrl
    \/ Paste
    \/ OnSubmit
    \/ FetchResolves
    \/ FetchResolvesUndecodable
    \/ FetchRejects
    \/ ClearAll

Spec == Init /\ [][Next]_vars

\* the promise fetch returned settles: it resolves, with a body that decodes
\* or not, or it rejects
FetchSettles ==
    \/ FetchResolves
    \/ FetchResolvesUndecodable
    \/ FetchRejects

\* Page, every fetch promise eventually settling
LiveSpec == Init /\ [][Next]_vars /\ WF_vars(FetchSettles)

(***************************************************************************)
(* The relay handler, one request at a time                                *)
(***************************************************************************)
RelayInit ==
    /\ rows = <<Row("u1", <<>>)>>
    /\ submitting = FALSE
    /\ result = NullResult
    /\ pending = <<>>
    /\ defaultPrevented = FALSE
    /\ webhook \in Webhooks
    /\ RelayIdle
    /\ FnIdle

\* POST, up to its await fetch(webhook, ...)
RelayReceive ==
    /\ relayPc \in {"idle", "done"}
    /\ \E body \in RequestBodies :
          /\ relayReq' = body
          /\ IF EarlyResponse(webhook, body) /= NoResponse
             THEN /\ relayResp' = EarlyResponse(webhook, body)
                  /\ relayPc' = "done"
                  /\ outbound' = <<>>
             ELSE /\ relayResp' = NoResponse
                  /\ relayPc' = "awaiting"
                  /\ outbound' = <<OutboundUrls(body)>>
    /\ down' = NoOutcome
    /\ UNCHANGED webhook
    /\ UNCHANGED <<pageVars, fnVars>>

\* the webhook answered: res.text(), safeJsonParse, the response
RelayWebhookAnswers ==
    /\ relayPc = "awaiting"
    /\ \E st \in DownStatuses, tx \in DownTexts :
          /\ down' = Outcome("response", st, tx)
          /\ relayResp' = ForwardResponse(st, tx)
    /\ relayPc' = "done"
    /\ UNCHANGED <<webhook, relayReq, outbound>>
    /\ UNCHANGED <<pageVars, fnVars>>

\* the calls made once the catch has run: it makes none of its own
outboundAfterCatchRetrying(out) == out \o out

outboundAfterCatch(out) == out

\* fetch(webhook) or res.text() threw: the catch
RelayWebhookThrows ==
    /\ relayPc = "awaiting"
    /\ \E m \in ThrowTexts :
          /\ down' = Outcome("thrown", NoStatus, m)
          /\ relayResp' = ExceptionResponse(m)
    /\ outbound' = outboundAfterCatch(outbound)
    /\ relayPc' = "done"
    /\ UNCHANGED <<webhook, relayReq>>
    /\ UNCHANGED <<pageVars, fnVars>>

RelayNext ==
    \/ RelayReceive
    \/ RelayWebhookAnswers
    \/ RelayWebhookThrows

RelaySpec == RelayInit /\ [][RelayNext]_vars

(***************************************************************************)
(* normalizeUrl and the urls / uniqueUrls computation, applied to arguments *)
(* drawn from bounded sets                                                 *)
(***************************************************************************)
\* the atoms of the texts normalizeUrl is applied to
TextAtoms == {"a", " ", "\n", "https://", "HtTp://"}

\* all texts of at most n atoms
TextsUpTo(n) == UNION {[1..k -> TextAtoms] : k \in 0..n}

\* the texts of the Entries uniqueUrls is computed from
EntryTexts == { <<>>, <<"a">>, <<" ", "a">>, <<"https://", "a">>, <<"b">>, <<"c">> }

\* all entry lists of at most n Entries
EntryListsUpTo(n) ==
    UNION {[1..k -> {Row("u1", t) : t \in EntryTexts}] : k \in 0..n}

FnInit ==
    /\ rows = <<Row("u1", <<>>)>>
    /\ submitting = FALSE
    /\ result = NullResult
    /\ pending = <<>>
    /\ defaultPrevented = FALSE
    /\ webhook = ""
    /\ RelayIdle
    /\ \/ \E t \in TextsUpTo(MaxTextLen) :
             fnIn = [kind |-> "text", text |-> t, rows |-> <<>>]
       \/ \E rs \in EntryListsUpTo(MaxEntries) :
             fnIn = [kind |-> "rows", text |-> <<>>, rows |-> rs]
    /\ fnOut = <<>>

\* normalizeUrl applied to the text, then to its own result
FnNormalize ==
    /\ fnIn.kind = "text"
    /\ Len(fnOut) < 2
    /\ fnOut' = Append(fnOut, normalizeUrl(IF fnOut = <<>> THEN fnIn.text
                                           ELSE fnOut[Len(fnOut)]))
    /\ UNCHANGED <<fnIn, pageVars, relayVars>>

\* uniqueUrls computed from the entry list
FnUniqueUrls ==
    /\ fnIn.kind = "rows"
    /\ fnOut = <<>>
    /\ fnOut' = <<uniqueOf(urlsOf(fnIn.rows))>>
    /\ UNCHANGED <<fnIn, pageVars, relayVars>>

FnNext ==
    \/ FnNormalize
    \/ FnUniqueUrls

FnSpec == FnInit /\ [][FnNext]_vars

(***************************************************************************)
(* Claims                                                                  *)
(***************************************************************************)
Contains(seq, x) == \E i \in DOMAIN seq : seq[i] = x

\* no two Entries share an id
DistinctIds == \A i, j \in DOMAIN rows : rows[i].id = rows[j].id => i = j

\* r is a failed result that carries what the relay sent in resp
CarriesRelayFailure(r, resp) ==
    /\ r.kind = "ng"
    /\ r.message = resp.message
    /\ r.details = resp.details
    /\ r.data.present
    /\ r.data.message = resp.message
    /\ r.data.status = resp.status
    /\ r.data.body = resp.body

\* C1: whenever the relay answers a submission with a failure status (400, 500
\* or 502), the result submit() sets is a failed one carrying the relay's
\* message, its details if any, and its status and body -- also when the
\* relay's answer has no details field.
C1_RelayFailureSurfaced ==
    [][\A k \in DOMAIN pending :
          \A resp \in RelayAnswers(webhook, pending[k]) :
             (resp.http \in {400, 500, 502} /\ FetchResolvesWith(k, resp))
                => CarriesRelayFailure(result', resp)]_vars

\* C2: in every reachable state the entry list holds at least one Entry.
C2_EntryListNeverEmpty == Len(rows) >= 1

\* two rows share an id: removing "one" of them removes both
C2_Witness ==
    /\ Len(rows) = 2
    /\ rows[1].id = rows[2].id

\* C3: at most one POST to the relay is in flight at any time.
C3_AtMostOneInFlight == Len(pending) <= 1

\* a POST is in flight while the user has edited the rows it was built from
C3_Witness ==
    /\ Len(pending) = 1
    /\ submitting
    /\ pending[1] /= SubmissionBody(uniqueUrls)

\* validate() holds a fatal error
HasFatalError ==
    \E i \in DOMAIN validate : validate[i].class \in {"No URL", "Invalid URL"}

\* C4: when validate() yields a fatal error, submit() issues no POST, does not
\* enter the in-flight state, and sets a rejected result whose details are all
\* the validation messages; with no non-empty URL they include the no-target
\* message.
C4_FatalSubmitRejects ==
    [][(OnSubmit /\ HasFatalError) =>
          /\ pending' = pending
          /\ ~submitting'
          /\ result' = RejectedResult(validate)
          /\ (\A i \in DOMAIN rows : trim(rows[i].url) = <<>>)
                => Contains(result'.details, NoUrlMessage)]_vars

\* a submission with an invalid URL and a duplicate was rejected with both
\* messages, and nothing is in flight
C4_Witness ==
    /\ result = RejectedResult(validate)
    /\ \E i \in DOMAIN result.details : result.details[i].class = "Invalid URL"
    /\ Contains(result.details, DuplicatesMessage)
    /\ pending = <<>>
    /\ ~submitting

\* the decoded body has a non-empty urls array
HasNonEmptyUrlsArray(body) ==
    /\ body.decodes
    /\ body.kind = "object"
    /\ body.urlsKind = "array"
    /\ Len(body.urls) > 0

\* C5: with no webhook configured the relay answers every request with 500
\* and a message, and makes no outbound call.
C5_MissingWebhookIs500 ==
    (webhook = "" /\ relayPc /= "idle") =>
        /\ relayPc = "done"
        /\ relayResp.http = 500
        /\ relayResp.message /= ""
        /\ outbound = <<>>

\* an undecodable body was answered 500
C5_Witness ==
    /\ webhook = ""
    /\ relayPc = "done"
    /\ ~relayReq.decodes
    /\ relayResp.http = 500

\* C6: with a webhook configured, a body that does not decode or has no
\* non-empty urls array is answered 400 with no outbound call; an outbound
\* call is made only for a non-empty urls array.
C6_BadInputIs400 ==
    (webhook /= "" /\ relayPc /= "idle") =>
        /\ ~HasNonEmptyUrlsArray(relayReq) =>
              /\ relayPc = "done"
              /\ relayResp.http = 400
              /\ outbound = <<>>
        /\ outbound /= <<>> => HasNonEmptyUrlsArray(relayReq)

\* urls: [] was answered 400
C6_Witness ==
    /\ webhook /= ""
    /\ relayPc = "done"
    /\ relayReq.decodes
    /\ relayReq.urlsKind = "array"
    /\ relayReq.urls = <<>>
    /\ relayResp.http = 400
    /\ outbound = <<>>

\* C7: when the webhook returned a response, the relay answers 200 "forwarded"
\* exactly when the downstream status is in 200..299 and 502 otherwise; both
\* embed the downstream status, and as body the decoded JSON when the text
\* decodes and the text itself when it does not.
C7_ForwardedOrGatewayError ==
    down.kind = "response" =>
        /\ relayPc = "done"
        /\ relayResp.http = (IF down.status \in 200..299 THEN 200 ELSE 502)
        /\ (relayResp.message = "forwarded") <=> (down.status \in 200..299)
        /\ relayResp.status = down.status
        /\ relayResp.body = (IF down.text \in DecodableTexts
                             THEN <<"json", down.text>>
                             ELSE <<"text", down.text>>)
        /\ relayResp.details = <<>>

\* 204 with the non-JSON text "ok" was answered 200 with body "ok"
C7_Witness ==
    /\ down = Outcome("response", 204, "ok")
    /\ relayResp.http = 200
    /\ relayResp.body = <<"text", "ok">>

\* C8: a request that passes the checks gets exactly one outbound attempt; if
\* it throws, the relay answers 502 with a message and the exception's text as
\* the only detail, and makes no second call.
C8_SingleOutboundAttempt ==
    /\ Len(outbound) <= 1
    /\ (relayPc /= "idle" /\ webhook /= "" /\ HasNonEmptyUrlsArray(relayReq))
          => Len(outbound) = 1
    /\ down.kind = "thrown" =>
          /\ relayPc = "done"
          /\ relayResp.http = 502
          /\ relayResp.message /= ""
          /\ relayResp.details = <<TextMessage(down.text)>>

\* the one attempt threw and was answered 502
C8_Witness ==
    /\ down.kind = "thrown"
    /\ Len(outbound) = 1
    /\ relayResp.http = 502

\* C9: when the pasted text splits into more than one token, the first token
\* becomes the text of the Entry pasted into, one Entry is appended per
\* remaining token in order, and the other Entries are unchanged.  (Stated
\* for Entries with pairwise distinct ids.)
C9_FirstTokenIntoEditedEntry ==
    [][\A i \in DOMAIN rows, t \in PasteTexts :
          (DistinctIds /\ Len(parts(t)) > 1 /\ PasteAt(i, t)) =>
             /\ Len(rows') = Len(rows) + Len(parts(t)) - 1
             /\ rows'[i].url = parts(t)[1]
             /\ \A j \in DOMAIN rows : j /= i => rows'[j] = rows[j]
             /\ \A k \in 2..Len(parts(t)) :
                   rows'[Len(rows) + k - 1].url = parts(t)[k]]_vars

\* C10: when the pasted text splits into zero or one token, the paste is not
\* intercepted: the default paste is kept, the text reaches the field, and the
\* number of Entries is unchanged.  (Stated for Entries with pairwise distinct
\* ids.)
C10_SingleTokenPasteNotIntercepted ==
    [][\A i \in DOMAIN rows, t \in PasteTexts :
          (DistinctIds /\ Len(parts(t)) <= 1 /\ PasteAt(i, t)) =>
             /\ ~defaultPrevented'
             /\ rows'[i].url = t
             /\ Len(rows') = Len(rows)]_vars

\* the Entries hold a URL twice, and nothing in them is fatal
HasDuplicatesOnly ==
    /\ Contains(validate, DuplicatesMessage)
    /\ ~HasFatalError

\* C11: when the Entries hold duplicate normalized URLs, at least one URL is
\* present and every unique URL is well-formed, submit() is not blocked: it
\* issues the POST with the unique URLs, and the deduplication message is
\* shown in the result.
C11_DuplicatesMessageShownOnSubmit ==
    [][(OnSubmit /\ HasDuplicatesOnly) =>
          /\ submitting'
          /\ pending' = Append(pending, SubmissionBody(uniqueUrls))
          /\ Contains(result'.details, DuplicatesMessage)]_vars

\* a POST is in flight for Entries holding a duplicate, and no result is shown
C11_Witness ==
    /\ submitting
    /\ HasDuplicatesOnly
    /\ pending = <<SubmissionBody(uniqueUrls)>>
    /\ result = NullResult

\* the normalized text of each Entry, in entry order
NormalizedOf(rs) == [i \in DOMAIN rs |-> normalizeUrl(rs[i].url)]

\* the index of the first Entry whose normalized text is u
FirstOccurrence(rs, u) ==
    CHOOSE i \in DOMAIN rs :
       /\ NormalizedOf(rs)[i] = u
       /\ \A j \in 1..(i - 1) : NormalizedOf(rs)[j] /= u

\* us lists each distinct non-empty normalized URL of rs once, by first
\* occurrence
IsFirstOccurrenceList(us, rs) ==
    /\ \A i, j \in DOMAIN us : us[i] = us[j] => i = j
    /\ {us[i] : i \in DOMAIN us}
          = {NormalizedOf(rs)[i] : i \in DOMAIN rs} \ {<<>>}
    /\ \A i, j \in DOMAIN us :
          i < j => FirstOccurrence(rs, us[i]) < FirstOccurrence(rs, us[j])

\* C12: for every entry list, the unique-URL list holds each distinct
\* non-empty normalized URL exactly once, in the order of its first occurrence
\* among the Entries, and nothing else.
C12_UniqueUrlsByFirstOccurrence ==
    (fnIn.kind = "rows" /\ fnOut /= <<>>)
       => IsFirstOccurrenceList(fnOut[1], fnIn.rows)

\* the Entries b, a, b, c, a give b, a, c
C12_Witness ==
    /\ fnIn.kind = "rows"
    /\ [i \in DOMAIN fnIn.rows |-> fnIn.rows[i].url]
          = << <<"b">>, <<"a">>, <<"b">>, <<"c">>, <<" ", "a">> >>
    /\ fnOut = << << <<"https://", "b">>, <<"https://", "a">>,
                     <<"https://", "c">> >> >>

\* C13: normalizeUrl is idempotent: applied to its own result it returns that
\* result, for every text, the empty, whitespace-only, scheme-less and
\* mixed-case http:// ones included.
C13_NormalizeUrlIdempotent ==
    (fnIn.kind = "text" /\ Len(fnOut) = 2) => fnOut[2] = fnOut[1]

\* a scheme-less text with surrounding whitespace was normalized twice
C13_Witness ==
    /\ fnIn.kind = "text"
    /\ fnIn.text = <<" ", "a", "\n">>
    /\ fnOut = << <<"https://", "a">>, <<"https://", "a">> >>

\* C14: reset, in any state, a submission in flight included, leaves exactly
\* one Entry, with empty text, and no result displayed.
C14_ResetLeavesOneEmptyEntry ==
    [][ClearAll =>
          /\ Len(rows') = 1
          /\ rows'[1].url = <<>>
          /\ result' = NullResult]_vars

\* the Entries were reset while the submission of two URLs is in flight
C14_Witness ==
    /\ submitting
    /\ Len(pending) = 1
    /\ Len(pending[1].urls) = 2
    /\ Len(rows) = 1
    /\ rows[1].url = <<>>
    /\ result = NullResult

\* C15: every Entry that addEntry, ingestPastedText or reset creates gets an
\* id different from that of every other Entry of the list: in every reachable
\* state the ids of the Entries are pairwise distinct, so that an edit or a
\* removal by id touches at most one Entry.
C15_EntryIdsPairwiseDistinct ==
    \A i \in DOMAIN rows : \A j \in DOMAIN rows \ {i} : rows[i].id /= rows[j].id

\* two Entries share an id, and their texts differ
C15_Witness ==
    \E i, j \in DOMAIN rows :
       /\ i /= j
       /\ rows[i].id = rows[j].id
       /\ rows[i].url /= rows[j].url

\* C16: every started submission eventually finishes, given that its fetch
\* eventually resolves or rejects: submitting returns to false, which enables
\* the SEND button again, and whenever it does (success status, failure
\* status, undecodable body, network error) a non-null result is set.
C16_SubmissionEventuallyFinishes ==
    /\ submitting ~> (~submitting /\ result /= NullResult)
    /\ [][(submitting /\ ~submitting') => result' /= NullResult]_vars

\* a submission has finished on the network-error path
C16_Witness ==
    /\ ~submitting
    /\ pending = <<>>
    /\ \E msg \in ThrowTexts : result = NetworkErrorResult(msg)

\* us is non-empty, holds no URL twice, and holds only normalized URLs that
\* pass the well-formedness check
IsSubmittableList(us) ==
    /\ Len(us) >= 1
    /\ \A i, j \in DOMAIN us : us[i] = us[j] => i = j
    /\ \A i \in DOMAIN us : normalizeUrl(us[i]) = us[i] /\ isValidUrl(us[i])

\* C17: every POST the page issues carries a urls list that is non-empty,
\* holds no duplicate, holds only normalized URLs that passed the
\* well-formedness check, and equals the unique-URL list of the Entries as
\* they were when submit was invoked; so the relay answers none of them with
\* its empty-urls 400.
C17_PostedUrlsAreTheUniqueUrls ==
    [][Len(pending') > Len(pending) =>
          LET body == pending'[Len(pending')]
          IN  /\ body = SubmissionBody(uniqueUrls)
              /\ OutboundUrls(body) = uniqueUrls
              /\ IsSubmittableList(OutboundUrls(body))
              /\ \A hook \in Webhooks :
                    \A resp \in RelayAnswers(hook, body) : resp.http /= 400]_vars

\* three Entries holding two distinct URLs were submitted as two URLs
C17_Witness ==
    /\ submitting
    /\ Len(urls) = 3
    /\ Len(uniqueUrls) = 2
    /\ pending = <<SubmissionBody(uniqueUrls)>>

====
